---- MODULE Spec2Model ----
(***************************************************************************)
(* School_manager: the accounts / teachers / students REST handlers over   *)
(* the Django ORM.  The store runs in Django's default autocommit mode:    *)
(* every ORM call of a handler is one atomic statement that is committed   *)
(* when it returns, and no handler opens a transaction of its own.  A      *)
(* handler is therefore a sequence of steps, one per ORM call, each a      *)
(* function from the store and the handler's locals to the store, the      *)
(* locals and either the next step or the response.  Spec serves one       *)
(* request at a time (a handler runs from its first step to its response   *)
(* in one action); ConcSpec interleaves the steps of two workers.          *)
(***************************************************************************)
EXTENDS Integers, FiniteSets, Sequences, TLC

\* ---------------------------------------------------------------- bounds
MaxUsers == 3
MaxTeachers == 2
MaxStudents == 2
MaxServed == 2          \* requests that arrive in an interleaved run

\* ------------------------------------------------------------ value sets
NULL == "NULL"          \* Python None / JSON null
ABSENT == "ABSENT"      \* key not present in request.data
EMPTY == ""             \* empty string
NoId == 0               \* no row / no object (a null foreign key)
AbsentId == -1          \* foreign-key field not present in request.data

Roles == {"admin", "teacher", "student"}
DefaultPassword == "defaultpassword123"

Emails == {"a@x", "b@x"}
InvalidEmail == "invalid-email"
RegUsernames == {"a@x", "u"}
Passwords == {"pw"}
Keys == {"K1", "K2"}
FirstNames == {"f1", "f2"}
LastNames == {"l1", "l2"}
RoleInputs == Roles \cup {"principal", NULL, ABSENT}

Workers == {1, 2}
ANON == 0               \* request without a valid bearer token

VARIABLES
    identities,   \* auth.User rows:  id -> row
    profiles,     \* accounts.UserProfile rows, keyed by user_id (OneToOne): user_id -> role
    teachers,     \* teachers.Teacher rows: id -> row
    students,     \* students.Student rows: id -> row
    nextUid, nextTid, nextSid,   \* AutoField sequences
    pc,           \* per worker: the next step of the handler it runs, or "idle"
    req,          \* per worker: the request it serves (request.data, caller, pk)
    loc,          \* per worker: the handler's local variables
    served        \* number of requests that have arrived at the workers

db == <<identities, profiles, teachers, students, nextUid, nextTid, nextSid>>

\* the store as one value, and its commit
Store == [identities |-> identities, profiles |-> profiles, teachers |-> teachers,
          students |-> students, nextUid |-> nextUid, nextTid |-> nextTid,
          nextSid |-> nextSid]

Commit(s) ==
    /\ identities' = s.identities
    /\ profiles' = s.profiles
    /\ teachers' = s.teachers
    /\ students' = s.students
    /\ nextUid' = s.nextUid
    /\ nextTid' = s.nextTid
    /\ nextSid' = s.nextSid
vars == <<identities, profiles, teachers, students, nextUid, nextTid, nextSid,
          pc, req, loc, served>>

\* ------------------------------------------------------------------ rows
User(username, email, first_name, last_name, password, is_superuser) ==
    [username |-> username, email |-> email, first_name |-> first_name,
     last_name |-> last_name, password |-> password, is_superuser |-> is_superuser]

Teacher(user, first_name, last_name, email, employee_id) ==
    [user |-> user, first_name |-> first_name, last_name |-> last_name,
     email |-> email, employee_id |-> employee_id]

Student(user, first_name, last_name, email, roll_number, assigned_teacher) ==
    [user |-> user, first_name |-> first_name, last_name |-> last_name,
     email |-> email, roll_number |-> roll_number,
     assigned_teacher |-> assigned_teacher]

\* request: the endpoint (op, kind), the identity of the bearer token, the pk of a
\* detail route and request.data (a key the payload lacks is ABSENT)
NoReq == [op |-> "none", kind |-> "none", caller |-> ANON, pk |-> NoId,
          username |-> ABSENT, password |-> ABSENT, email |-> ABSENT,
          first_name |-> ABSENT, last_name |-> ABSENT, role |-> ABSENT,
          employee_id |-> ABSENT, roll_number |-> ABSENT,
          assigned_teacher |-> AbsentId, null_body |-> FALSE]

\* locals of a handler: `user` (the created User), `instance` (the row
\* get_object() loaded, with its pk) and `instance_user` (the User row that
\* instance.user loaded)
NoLoc == [user |-> NoId, id |-> NoId, instance |-> <<>>, instance_user |-> <<>>]

NoResp == [status |-> 0, error |-> ABSENT, role |-> ABSENT, token |-> FALSE,
           user |-> NoId, id |-> NoId, rows |-> <<>>]

Response(status, error) == [NoResp EXCEPT !.status = status, !.error = error]

\* ------------------------------------------------------- outcome of a step
\* the handler returns response r: its locals are gone
Return(s, r) == [s |-> s, l |-> NoLoc, pc |-> "idle", resp |-> r]

\* the handler moves on to its next ORM call with locals l
Goto(s, l, label) == [s |-> s, l |-> l, pc |-> label, resp |-> NoResp]

\* ------------------------------------------------------- store primitives
UsernameExists(s, username) ==
    \E u \in DOMAIN s.identities : s.identities[u].username = username
EmailExists(s, email) ==
    \E u \in DOMAIN s.identities : s.identities[u].email = email

\* variant: the password is not compared
Authenticate_AnyPassword(s, username, password) ==
    IF UsernameExists(s, username)
    THEN CHOOSE u \in DOMAIN s.identities : s.identities[u].username = username
    ELSE NoId

\* authenticate(username, password): the user with that name whose password checks
Authenticate(s, username, password) ==
    IF \E u \in DOMAIN s.identities :
            s.identities[u].username = username /\ s.identities[u].password = password
    THEN CHOOSE u \in DOMAIN s.identities :
            s.identities[u].username = username /\ s.identities[u].password = password
    ELSE NoId

\* ---------------------------------------------------------- accounts.login
Missing(v) == v \in {ABSENT, EMPTY, NULL}

\* variant: the superuser test ahead of the Profile
LoginRole_SuperuserFirst(s, u) ==
    IF s.identities[u].is_superuser THEN "admin"
    ELSE IF u \in DOMAIN s.profiles THEN s.profiles[u] ELSE "student"

LoginRole(s, u) ==
    IF u \in DOMAIN s.profiles THEN s.profiles[u]
    ELSE IF s.identities[u].is_superuser THEN "admin" ELSE "student"

Login(s, q, l) ==
    IF q.null_body
    THEN Return(s, Response(500, "An error occurred during login"))
    ELSE IF Missing(q.username) \/ Missing(q.password)
    THEN Return(s, Response(400, "Username and password are required"))
    ELSE LET user == Authenticate(s, q.username, q.password) IN
         IF user # NoId
         THEN Return(s, [NoResp EXCEPT !.status = 200, !.token = TRUE, !.user = user,
                                       !.role = LoginRole(s, user)])
         ELSE Return(s, Response(401, "Invalid credentials"))

\* ------------------------------------------------------- accounts.register
RegisterCheckUsername(s, q, l) ==
    IF q.null_body
    THEN Return(s, Response(500, "An error occurred during registration"))
    ELSE IF Missing(q.username) \/ Missing(q.password) \/ Missing(q.email)
    THEN Return(s, Response(400, "Username, password, and email are required"))
    ELSE IF UsernameExists(s, q.username)
    THEN Return(s, Response(400, "Username already exists"))
    ELSE Goto(s, l, "register_check_email")

\* variant: no test of the email
RegisterCheckEmail_Skipped(s, q, l) == Goto(s, l, "register_create_user")

RegisterCheckEmail(s, q, l) ==
    IF EmailExists(s, q.email)
    THEN Return(s, Response(400, "Email already exists"))
    ELSE Goto(s, l, "register_create_user")

\* User.objects.create_user: auth_user.username is UNIQUE, auth_user.email is not
CreateUserFails(s, username) == UsernameExists(s, username)

CreateUser(s, row) ==
    [s EXCEPT !.identities = @ @@ (s.nextUid :> row), !.nextUid = @ + 1]

OrEmpty(v) == IF Missing(v) THEN EMPTY ELSE v

RegisterCreateUser(s, q, l) ==
    IF CreateUserFails(s, q.username)
    THEN Return(s, Response(500, "An error occurred during registration"))
    ELSE Goto(CreateUser(s, User(q.username, q.email, OrEmpty(q.first_name),
                                 OrEmpty(q.last_name), q.password, FALSE)),
              [l EXCEPT !.user = s.nextUid], "register_create_profile")

\* variant: another default role
RequestedRole_Teacher(q) == IF q.role = ABSENT THEN "teacher" ELSE q.role

\* role = request.data.get('role', 'student')
RequestedRole(q) == IF q.role = ABSENT THEN "student" ELSE q.role

\* UserProfile.objects.create(user=user, role=role): role is a NOT NULL column, user
\* is OneToOne (UNIQUE); objects.create() does not run the `choices` validation
CreateProfileFails(s, user, role) == role = NULL \/ user \in DOMAIN s.profiles

\* variant: the Profile stored with role student, whatever role was asked for
CreateProfile_Student(s, user, role) == [s EXCEPT !.profiles = @ @@ (user :> "student")]

CreateProfile(s, user, role) == [s EXCEPT !.profiles = @ @@ (user :> role)]

\* variant: the failure of UserProfile.objects.create() leaves the view uncaught
RegisterCreateProfile_Uncaught(s, q, l) ==
    IF CreateProfileFails(s, l.user, RequestedRole(q))
    THEN Return(s, Response(500, ABSENT))
    ELSE Return(CreateProfile(s, l.user, RequestedRole(q)),
                [NoResp EXCEPT !.status = 201, !.token = TRUE, !.user = l.user,
                               !.role = RequestedRole(q)])

RegisterCreateProfile(s, q, l) ==
    IF CreateProfileFails(s, l.user, RequestedRole(q))
    THEN Return(s, Response(500, "An error occurred during registration"))
    ELSE Return(CreateProfile(s, l.user, RequestedRole(q)),
                [NoResp EXCEPT !.status = 201, !.token = TRUE, !.user = l.user,
                               !.role = RequestedRole(q)])

\* ------------------------------------------------- accounts.permissions
\* role of an authenticated identity: its Profile's role, else admin for a
\* superuser, else student
ResolveRole(s, u) ==
    IF u \in DOMAIN s.profiles THEN s.profiles[u]
    ELSE IF s.identities[u].is_superuser THEN "admin" ELSE "student"

\* the GET routes: list, retrieve, the `students` action and the exports
SafeMethod(op) == op \in {"list", "retrieve", "students", "export"}

HasPermission(policy, role, op) ==
    CASE policy = "IsAdminOrReadOnly" -> SafeMethod(op) \/ role = "admin"
      [] policy = "IsStudentOrTeacherOrAdmin" -> role \in {"student", "teacher", "admin"}
      [] policy = "IsTeacherOrAdmin" -> role \in {"teacher", "admin"}
      [] policy = "IsAuthenticated" -> TRUE

\* permission_classes of the two viewsets
TeacherViewSetPermission_Any == "IsStudentOrTeacherOrAdmin"
TeacherViewSetPermission == "IsAdminOrReadOnly"
StudentViewSetPermission_Admin == "IsAdminOrReadOnly"
StudentViewSetPermission_TeacherOrAdmin == "IsTeacherOrAdmin"
StudentViewSetPermission == "IsStudentOrTeacherOrAdmin"

\* permission class of the combined export views of school_management
SchoolExportPermission == "IsAuthenticated"

\* an @action without permission_classes of its own runs under its viewset's
PermissionClass(kind) ==
    CASE kind = "teacher" -> TeacherViewSetPermission
      [] kind = "student" -> StudentViewSetPermission
      [] OTHER -> SchoolExportPermission

\* variant: a request without a token is refused as forbidden
CheckPermissions_Forbid(s, q, l) ==
    IF q.caller # ANON
          /\ HasPermission(PermissionClass(q.kind), ResolveRole(s, q.caller), q.op)
    THEN Goto(s, l, q.kind \o "_" \o q.op)
    ELSE Return(s, Response(403, "You do not have permission to perform this action."))

\* APIView.initial(): authentication, then the viewset's permission class; both
\* run before the handler body and outside its try block
CheckPermissions(s, q, l) ==
    IF q.caller = ANON
    THEN Return(s, Response(401, "Authentication credentials were not provided."))
    ELSE IF HasPermission(PermissionClass(q.kind), ResolveRole(s, q.caller), q.op)
    THEN Goto(s, l, q.kind \o "_" \o q.op)
    ELSE Return(s, Response(403, "You do not have permission to perform this action."))

\* ------------------------------------------- shared by the two viewsets
ValidEmail(e) == e \in Emails

\* fields of request.data that the partial serializer validated
Provided(v) == v # ABSENT

\* variant: first_name copied to the User whether or not the payload carries it
UserData_FirstNameAlways(q, row) ==
    [row EXCEPT !.first_name = IF Provided(q.first_name) THEN q.first_name ELSE EMPTY,
                !.last_name = IF Provided(q.last_name) THEN q.last_name ELSE @,
                !.email = IF Provided(q.email) THEN q.email ELSE @,
                !.username = IF Provided(q.email) THEN q.email ELSE @]

\* user_data of update(): the mirrored fields that the payload carries
UserData(q, row) ==
    [row EXCEPT !.first_name = IF Provided(q.first_name) THEN q.first_name ELSE @,
                !.last_name = IF Provided(q.last_name) THEN q.last_name ELSE @,
                !.email = IF Provided(q.email) THEN q.email ELSE @,
                !.username = IF Provided(q.email) THEN q.email ELSE @]

\* User.objects.filter(id=...).update(**user_data): fails on a username another
\* row holds; a filter that matches no row updates nothing
UpdateUserFails(s, u, q) ==
    /\ u \in DOMAIN s.identities
    /\ Provided(q.email)
    /\ \E o \in DOMAIN s.identities \ {u} : s.identities[o].username = q.email

UpdateUser(s, u, q) ==
    IF u \in DOMAIN s.identities
    THEN [s EXCEPT !.identities[u] = UserData(q, @)]
    ELSE s

\* `if user_data:` the handler reads instance.user, which loads the User row
InstanceUser(s, u, q) ==
    IF u \in DOMAIN s.identities
          /\ (Provided(q.first_name) \/ Provided(q.last_name) \/ Provided(q.email))
    THEN s.identities[u]
    ELSE <<>>

\* ------------------------------------------------------ teachers.TeacherViewSet
TeacherEmailExists(s, email, except) ==
    \E t \in DOMAIN s.teachers \ {except} : s.teachers[t].email = email
TeacherEmployeeIdExists(s, employee_id, except) ==
    \E t \in DOMAIN s.teachers \ {except} : s.teachers[t].employee_id = employee_id

\* TeacherCreateSerializer(data=request.data).is_valid()
TeacherCreateValid(s, q) ==
    /\ q.first_name \in FirstNames
    /\ q.last_name \in LastNames
    /\ ValidEmail(q.email)
    /\ ~TeacherEmailExists(s, q.email, NoId)
    /\ q.employee_id \in Keys
    /\ ~TeacherEmployeeIdExists(s, q.employee_id, NoId)

TeacherCreateValidate(s, q, l) ==
    IF ~q.null_body /\ TeacherCreateValid(s, q)
    THEN Goto(s, l, "teacher_create_user")
    ELSE Return(s, Response(400, "Failed to create teacher"))

TeacherCreateUser(s, q, l) ==
    IF CreateUserFails(s, q.email)
    THEN Return(s, Response(400, "Failed to create teacher"))
    ELSE Goto(CreateUser(s, User(q.email, q.email, q.first_name, q.last_name,
                                 DefaultPassword, FALSE)),
              [l EXCEPT !.user = s.nextUid], "teacher_create_profile")

\* variant: the Profile of a Teacher created with another role
TeacherCreateProfile_Student(s, q, l) ==
    IF CreateProfileFails(s, l.user, "student")
    THEN Return(s, Response(400, "Failed to create teacher"))
    ELSE Goto(CreateProfile(s, l.user, "student"), l, "teacher_create_record")

TeacherCreateProfile(s, q, l) ==
    IF CreateProfileFails(s, l.user, "teacher")
    THEN Return(s, Response(400, "Failed to create teacher"))
    ELSE Goto(CreateProfile(s, l.user, "teacher"), l, "teacher_create_record")

\* variant: employee_id without its unique constraint
TeacherWriteFails_NoEmployeeId(s, id, row) ==
    \/ TeacherEmailExists(s, row.email, id)
    \/ \E t \in DOMAIN s.teachers \ {id} : s.teachers[t].user = row.user

\* INSERT / UPDATE of a teachers row: user is OneToOne (UNIQUE), email and
\* employee_id are unique
TeacherWriteFails(s, id, row) ==
    \/ TeacherEmailExists(s, row.email, id)
    \/ TeacherEmployeeIdExists(s, row.employee_id, id)
    \/ \E t \in DOMAIN s.teachers \ {id} : s.teachers[t].user = row.user

TeacherCreateRecord(s, q, l) ==
    LET row == Teacher(l.user, q.first_name, q.last_name, q.email, q.employee_id) IN
    IF TeacherWriteFails(s, NoId, row)
    THEN Return(s, Response(400, "Failed to create teacher"))
    ELSE Return([s EXCEPT !.teachers = @ @@ (s.nextTid :> row), !.nextTid = @ + 1],
                [NoResp EXCEPT !.status = 201, !.id = s.nextTid, !.user = l.user])

\* TeacherSerializer(instance, data=request.data, partial=True).is_valid()
TeacherUpdateValid(s, id, q) ==
    /\ Provided(q.first_name) => q.first_name \in FirstNames
    /\ Provided(q.last_name) => q.last_name \in LastNames
    /\ Provided(q.email) => ValidEmail(q.email) /\ ~TeacherEmailExists(s, q.email, id)
    /\ Provided(q.employee_id) => q.employee_id \in Keys /\ ~TeacherEmployeeIdExists(s, q.employee_id, id)

\* get_object() raises Http404 inside the try block of update()
TeacherUpdateGetObject(s, q, l) ==
    IF q.pk \in DOMAIN s.teachers
    THEN Goto(s, [l EXCEPT !.id = q.pk, !.instance = s.teachers[q.pk]],
              "teacher_update_validate")
    ELSE Return(s, Response(400, "Failed to update teacher"))

TeacherUpdateValidate(s, q, l) ==
    IF ~q.null_body /\ TeacherUpdateValid(s, l.id, q)
    THEN Goto(s, l, "teacher_update_user")
    ELSE Return(s, Response(400, "Failed to update teacher"))

TeacherUpdateUser(s, q, l) ==
    IF UpdateUserFails(s, l.instance.user, q)
    THEN Return(s, Response(400, "Failed to update teacher"))
    ELSE Goto(UpdateUser(s, l.instance.user, q),
              [l EXCEPT !.instance_user = InstanceUser(s, l.instance.user, q)],
              "teacher_update_save")

\* serializer.save(): the validated fields are set on the loaded instance
TeacherUpdated(q, row) ==
    [row EXCEPT !.first_name = IF Provided(q.first_name) THEN q.first_name ELSE @,
                !.last_name = IF Provided(q.last_name) THEN q.last_name ELSE @,
                !.email = IF Provided(q.email) THEN q.email ELSE @,
                !.employee_id = IF Provided(q.employee_id) THEN q.employee_id ELSE @]

\* instance.save(): UPDATE of every column by pk, INSERT when no row has that pk
TeacherUpdateSave(s, q, l) ==
    LET row == TeacherUpdated(q, l.instance) IN
    IF TeacherWriteFails(s, l.id, row)
    THEN Return(s, Response(400, "Failed to update teacher"))
    ELSE Return([s EXCEPT !.teachers = (l.id :> row) @@ @],
                [NoResp EXCEPT !.status = 200, !.id = l.id])

\* ModelViewSet.destroy(): get_object(), then instance.delete()
TeacherDeleteGetObject(s, q, l) ==
    IF q.pk \in DOMAIN s.teachers
    THEN Goto(s, [l EXCEPT !.id = q.pk], "teacher_delete_row")
    ELSE Return(s, Response(404, "Not found."))

\* variant: the delete leaves the Students that reference the Teacher alone
SetNull_Skipped(students_, id) == students_

\* Student.assigned_teacher: nullable ForeignKey(Teacher, on_delete=SET_NULL)
SetNull(students_, id) ==
    [x \in DOMAIN students_ |->
        IF students_[x].assigned_teacher = id
        THEN [students_[x] EXCEPT !.assigned_teacher = NoId]
        ELSE students_[x]]

Without(f, id) == [x \in DOMAIN f \ {id} |-> f[x]]

\* variant: the delete cascades to the User and its Profile
TeacherDeleteRow_Cascade(s, q, l) ==
    Return([s EXCEPT !.students = SetNull(@, l.id), !.teachers = Without(@, l.id),
                     !.identities = Without(@, s.teachers[l.id].user),
                     !.profiles = Without(@, s.teachers[l.id].user)],
           [NoResp EXCEPT !.status = 204, !.id = l.id])

TeacherDeleteRow(s, q, l) ==
    Return([s EXCEPT !.students = SetNull(@, l.id), !.teachers = Without(@, l.id)],
           [NoResp EXCEPT !.status = 204, !.id = l.id])

\* ModelViewSet.list() / retrieve()
TeacherList(s, q, l) == Return(s, [NoResp EXCEPT !.status = 200])

TeacherRetrieve(s, q, l) ==
    IF q.pk \in DOMAIN s.teachers
    THEN Return(s, [NoResp EXCEPT !.status = 200, !.id = q.pk])
    ELSE Return(s, Response(404, "Not found."))

\* the ids of a queryset in its order, newest first (Meta.ordering = ['-created_at'])
RECURSIVE Newest(_)
Newest(ids) ==
    IF ids = {} THEN <<>>
    ELSE LET m == CHOOSE x \in ids : \A y \in ids : y <= x IN <<m>> \o Newest(ids \ {m})

\* variant: every Student, whatever its assigned_teacher
StudentSet_All(s, pk) == DOMAIN s.students

\* teacher.student_set: the Students whose assigned_teacher is the Teacher
StudentSet(s, pk) == {x \in DOMAIN s.students : s.students[x].assigned_teacher = pk}

\* TeacherViewSet.students: the serialized Students of teacher.student_set.all();
\* the Http404 of get_object() is raised inside the try block
TeacherStudents(s, q, l) ==
    IF q.pk \in DOMAIN s.teachers
    THEN LET ids == Newest(StudentSet(s, q.pk)) IN
         Return(s, [NoResp EXCEPT !.status = 200, !.id = q.pk,
                        !.rows = [i \in 1..Len(ids) |->
                                    [id |-> ids[i],
                                     assigned_teacher |-> s.students[ids[i]].assigned_teacher]]])
    ELSE Return(s, Response(400, "Failed to retrieve students"))

\* TeacherViewSet.export_csv: after the header, one row per Teacher of
\* Teacher.objects.all(), with teacher.student_set.count()
TeacherExportCsv(s, q, l) ==
    LET ids == Newest(DOMAIN s.teachers) IN
    Return(s, [NoResp EXCEPT !.status = 200,
                   !.rows = [i \in 1..Len(ids) |->
                               [id |-> ids[i], email |-> s.teachers[ids[i]].email,
                                employee_id |-> s.teachers[ids[i]].employee_id,
                                students_count |-> Cardinality(StudentSet(s, ids[i]))]]])

\* ------------------------------------------------------ students.StudentViewSet
StudentEmailExists(s, email, except) ==
    \E t \in DOMAIN s.students \ {except} : s.students[t].email = email
StudentRollNumberExists(s, roll_number, except) ==
    \E t \in DOMAIN s.students \ {except} : s.students[t].roll_number = roll_number

\* PrimaryKeyRelatedField(queryset=Teacher.objects.all(), allow_null=True)
AssignedTeacherValid(s, t) == t \in {AbsentId, NoId} \/ t \in DOMAIN s.teachers

AssignedTeacherValue(t) == IF t = AbsentId THEN NoId ELSE t

\* StudentCreateSerializer(data=request.data).is_valid()
StudentCreateValid(s, q) ==
    /\ q.first_name \in FirstNames
    /\ q.last_name \in LastNames
    /\ ValidEmail(q.email)
    /\ ~StudentEmailExists(s, q.email, NoId)
    /\ q.roll_number \in Keys
    /\ ~StudentRollNumberExists(s, q.roll_number, NoId)
    /\ AssignedTeacherValid(s, q.assigned_teacher)

StudentCreateValidate(s, q, l) ==
    IF ~q.null_body /\ StudentCreateValid(s, q)
    THEN Goto(s, l, "student_create_user")
    ELSE Return(s, Response(400, "Failed to create student"))

StudentCreateUser(s, q, l) ==
    IF CreateUserFails(s, q.email)
    THEN Return(s, Response(400, "Failed to create student"))
    ELSE Goto(CreateUser(s, User(q.email, q.email, q.first_name, q.last_name,
                                 DefaultPassword, FALSE)),
              [l EXCEPT !.user = s.nextUid], "student_create_profile")

StudentCreateProfile(s, q, l) ==
    IF CreateProfileFails(s, l.user, "student")
    THEN Return(s, Response(400, "Failed to create student"))
    ELSE Goto(CreateProfile(s, l.user, "student"), l, "student_create_record")

\* INSERT / UPDATE of a students row: user is OneToOne (UNIQUE), email and
\* roll_number are unique, assigned_teacher is a foreign key
StudentWriteFails(s, id, row) ==
    \/ StudentEmailExists(s, row.email, id)
    \/ StudentRollNumberExists(s, row.roll_number, id)
    \/ \E t \in DOMAIN s.students \ {id} : s.students[t].user = row.user
    \/ row.assigned_teacher # NoId /\ row.assigned_teacher \notin DOMAIN s.teachers

StudentCreateRecord(s, q, l) ==
    LET row == Student(l.user, q.first_name, q.last_name, q.email, q.roll_number,
                       AssignedTeacherValue(q.assigned_teacher)) IN
    IF StudentWriteFails(s, NoId, row)
    THEN Return(s, Response(400, "Failed to create student"))
    ELSE Return([s EXCEPT !.students = @ @@ (s.nextSid :> row), !.nextSid = @ + 1],
                [NoResp EXCEPT !.status = 201, !.id = s.nextSid, !.user = l.user])

\* StudentSerializer(instance, data=request.data, partial=True).is_valid()
StudentUpdateValid(s, id, q) ==
    /\ Provided(q.first_name) => q.first_name \in FirstNames
    /\ Provided(q.last_name) => q.last_name \in LastNames
    /\ Provided(q.email) => ValidEmail(q.email) /\ ~StudentEmailExists(s, q.email, id)
    /\ Provided(q.roll_number) => q.roll_number \in Keys /\ ~StudentRollNumberExists(s, q.roll_number, id)
    /\ AssignedTeacherValid(s, q.assigned_teacher)

\* get_object() raises Http404 inside the try block of update()
StudentUpdateGetObject(s, q, l) ==
    IF q.pk \in DOMAIN s.students
    THEN Goto(s, [l EXCEPT !.id = q.pk, !.instance = s.students[q.pk]],
              "student_update_validate")
    ELSE Return(s, Response(400, "Failed to update student"))

StudentUpdateValidate(s, q, l) ==
    IF ~q.null_body /\ StudentUpdateValid(s, l.id, q)
    THEN Goto(s, l, "student_update_user")
    ELSE Return(s, Response(400, "Failed to update student"))

StudentUpdateUser(s, q, l) ==
    IF UpdateUserFails(s, l.instance.user, q)
    THEN Return(s, Response(400, "Failed to update student"))
    ELSE Goto(UpdateUser(s, l.instance.user, q),
              [l EXCEPT !.instance_user = InstanceUser(s, l.instance.user, q)],
              "student_update_save")

\* serializer.save(): the validated fields are set on the loaded instance
StudentUpdated(q, row) ==
    [row EXCEPT !.first_name = IF Provided(q.first_name) THEN q.first_name ELSE @,
                !.last_name = IF Provided(q.last_name) THEN q.last_name ELSE @,
                !.email = IF Provided(q.email) THEN q.email ELSE @,
                !.roll_number = IF Provided(q.roll_number) THEN q.roll_number ELSE @,
                !.assigned_teacher =
                    IF q.assigned_teacher # AbsentId THEN q.assigned_teacher ELSE @]

\* instance.save(): UPDATE of every column by pk, INSERT when no row has that pk
StudentUpdateSave(s, q, l) ==
    LET row == StudentUpdated(q, l.instance) IN
    IF StudentWriteFails(s, l.id, row)
    THEN Return(s, Response(400, "Failed to update student"))
    ELSE Return([s EXCEPT !.students = (l.id :> row) @@ @],
                [NoResp EXCEPT !.status = 200, !.id = l.id])

\* ModelViewSet.destroy(): get_object(), then instance.delete()
StudentDeleteGetObject(s, q, l) ==
    IF q.pk \in DOMAIN s.students
    THEN Goto(s, [l EXCEPT !.id = q.pk], "student_delete_row")
    ELSE Return(s, Response(404, "Not found."))

StudentDeleteRow(s, q, l) ==
    Return([s EXCEPT !.students = Without(@, l.id)],
           [NoResp EXCEPT !.status = 204, !.id = l.id])

\* ModelViewSet.list() / retrieve()
StudentList(s, q, l) == Return(s, [NoResp EXCEPT !.status = 200])

StudentRetrieve(s, q, l) ==
    IF q.pk \in DOMAIN s.students
    THEN Return(s, [NoResp EXCEPT !.status = 200, !.id = q.pk])
    ELSE Return(s, Response(404, "Not found."))

\* variant: the column holds the first name alone
AssignedTeacherName_FirstOnly(s, t) ==
    IF t = NoId THEN "None" ELSE s.teachers[t].first_name

\* f"{first_name} {last_name}" of the assigned Teacher, 'None' without one
AssignedTeacherName(s, t) ==
    IF t = NoId THEN "None"
    ELSE s.teachers[t].first_name \o " " \o s.teachers[t].last_name

\* StudentViewSet.export_csv: after the header, one row per Student of
\* Student.objects.all()
StudentExportCsv(s, q, l) ==
    LET ids == Newest(DOMAIN s.students) IN
    Return(s, [NoResp EXCEPT !.status = 200,
                   !.rows = [i \in 1..Len(ids) |->
                               [id |-> ids[i], email |-> s.students[ids[i]].email,
                                roll_number |-> s.students[ids[i]].roll_number,
                                assigned_teacher |->
                                    AssignedTeacherName(s, s.students[ids[i]].assigned_teacher)]]])

\* the combined and detailed exports of school_management: read-only
SchoolExport(s, q, l) == Return(s, [NoResp EXCEPT !.status = 200])

\* --------------------------------------------------------------- dispatch
\* first step of the handler of request q
Entry(q) == IF q.op \in {"login", "register"} THEN q.op ELSE "permission"

\* the step at `label`, applied to store s, request q and locals l
HandlerStep(label, s, q, l) ==
    CASE label = "login" -> Login(s, q, l)
      [] label = "register" -> RegisterCheckUsername(s, q, l)
      [] label = "register_check_email" -> RegisterCheckEmail(s, q, l)
      [] label = "register_create_user" -> RegisterCreateUser(s, q, l)
      [] label = "register_create_profile" -> RegisterCreateProfile(s, q, l)
      [] label = "permission" -> CheckPermissions(s, q, l)
      [] label = "teacher_create" -> TeacherCreateValidate(s, q, l)
      [] label = "teacher_create_user" -> TeacherCreateUser(s, q, l)
      [] label = "teacher_create_profile" -> TeacherCreateProfile(s, q, l)
      [] label = "teacher_create_record" -> TeacherCreateRecord(s, q, l)
      [] label = "teacher_update" -> TeacherUpdateGetObject(s, q, l)
      [] label = "teacher_update_validate" -> TeacherUpdateValidate(s, q, l)
      [] label = "teacher_update_user" -> TeacherUpdateUser(s, q, l)
      [] label = "teacher_update_save" -> TeacherUpdateSave(s, q, l)
      [] label = "teacher_delete" -> TeacherDeleteGetObject(s, q, l)
      [] label = "teacher_delete_row" -> TeacherDeleteRow(s, q, l)
      [] label = "teacher_list" -> TeacherList(s, q, l)
      [] label = "teacher_retrieve" -> TeacherRetrieve(s, q, l)
      [] label = "teacher_students" -> TeacherStudents(s, q, l)
      [] label = "teacher_export" -> TeacherExportCsv(s, q, l)
      [] label = "student_create" -> StudentCreateValidate(s, q, l)
      [] label = "student_create_user" -> StudentCreateUser(s, q, l)
      [] label = "student_create_profile" -> StudentCreateProfile(s, q, l)
      [] label = "student_create_record" -> StudentCreateRecord(s, q, l)
      [] label = "student_update" -> StudentUpdateGetObject(s, q, l)
      [] label = "student_update_validate" -> StudentUpdateValidate(s, q, l)
      [] label = "student_update_user" -> StudentUpdateUser(s, q, l)
      [] label = "student_update_save" -> StudentUpdateSave(s, q, l)
      [] label = "student_delete" -> StudentDeleteGetObject(s, q, l)
      [] label = "student_delete_row" -> StudentDeleteRow(s, q, l)
      [] label = "student_list" -> StudentList(s, q, l)
      [] label = "student_retrieve" -> StudentRetrieve(s, q, l)
      [] label = "student_export" -> StudentExportCsv(s, q, l)
      [] label = "school_export" -> SchoolExport(s, q, l)

\* the handler run from `label` to its response, with no other request in between
RECURSIVE Run(_, _, _, _)
Run(label, s, q, l) ==
    LET o == HandlerStep(label, s, q, l) IN
    IF o.pc = "idle" THEN o ELSE Run(o.pc, o.s, q, o.l)

\* the whole handler of request q on store s: [s |-> store after, resp |-> response]
Handle(s, q) == Run(Entry(q), s, q, NoLoc)

\* ----------------------------------------------------------------- requests
Payload(first_name, last_name, email) ==
    [NoReq EXCEPT !.first_name = first_name, !.last_name = last_name, !.email = email]

LoginRequests ==
    {[NoReq EXCEPT !.op = "login", !.username = u, !.password = p] :
        u \in {"root", "u", "a@x"}, p \in {"pw", DefaultPassword, "rootpw"}}
    \cup {[NoReq EXCEPT !.op = "login", !.password = "pw"],
          [NoReq EXCEPT !.op = "login", !.username = "u", !.password = EMPTY]}

RegisterRequests ==
    {[NoReq EXCEPT !.op = "register", !.username = u, !.password = "pw", !.email = e,
                   !.role = r] : u \in RegUsernames, e \in Emails, r \in RoleInputs}
    \cup {[NoReq EXCEPT !.op = "register", !.username = ABSENT, !.password = "pw",
                        !.email = "a@x"],
          [NoReq EXCEPT !.op = "register", !.username = "u", !.password = EMPTY,
                        !.email = "a@x"],
          [NoReq EXCEPT !.op = "register", !.username = "u", !.password = "pw",
                        !.email = NULL]}

Pks(kind) == IF kind = "teacher" THEN 1..MaxTeachers ELSE 1..MaxStudents
Kinds == {"teacher", "student"}

ListRequests == {[NoReq EXCEPT !.op = "list", !.kind = k] : k \in Kinds}

RetrieveRequests ==
    {[NoReq EXCEPT !.op = "retrieve", !.kind = "teacher", !.pk = i] : i \in Pks("teacher")}
    \cup {[NoReq EXCEPT !.op = "retrieve", !.kind = "student", !.pk = i] : i \in Pks("student")}

\* GET /teachers/<pk>/students/
StudentsOfTeacherRequests ==
    {[NoReq EXCEPT !.op = "students", !.kind = "teacher", !.pk = i] : i \in Pks("teacher")}

\* GET /teachers/export_csv/, /students/export_csv/ and the combined exports
ExportRequests ==
    {[NoReq EXCEPT !.op = "export", !.kind = k] : k \in Kinds \cup {"school"}}

DeleteRequests ==
    {[NoReq EXCEPT !.op = "delete", !.kind = "teacher", !.pk = i] : i \in Pks("teacher")}
    \cup {[NoReq EXCEPT !.op = "delete", !.kind = "student", !.pk = i] : i \in Pks("student")}

TeacherCreateRequests ==
    {[Payload("f1", "l1", e) EXCEPT !.op = "create", !.kind = "teacher",
                                      !.employee_id = k] :
        e \in Emails \cup {InvalidEmail}, k \in Keys}

StudentCreateRequests ==
    {[Payload("f1", "l1", e) EXCEPT !.op = "create", !.kind = "student",
                                      !.roll_number = k, !.assigned_teacher = t] :
        e \in Emails \cup {InvalidEmail}, k \in Keys,
        t \in {AbsentId} \cup Pks("teacher")}

\* PATCH bodies: none, one or two of the mirrored fields, or one other field
MirroredPayloads ==
    {Payload(ABSENT, ABSENT, ABSENT), Payload("f2", ABSENT, ABSENT),
     Payload(ABSENT, "l2", ABSENT), Payload(ABSENT, ABSENT, InvalidEmail)}
    \cup {Payload(f, ABSENT, e) : f \in {ABSENT, "f2"}, e \in Emails}

TeacherUpdateRequests ==
    {[d EXCEPT !.op = "update", !.kind = "teacher", !.pk = i] :
        d \in MirroredPayloads \cup {[NoReq EXCEPT !.employee_id = k] : k \in Keys}
              \cup {[Payload("f2", ABSENT, ABSENT) EXCEPT !.employee_id = k] : k \in Keys},
        i \in Pks("teacher")}

StudentUpdateRequests ==
    {[d EXCEPT !.op = "update", !.kind = "student", !.pk = i] :
        d \in MirroredPayloads \cup {[NoReq EXCEPT !.roll_number = k] : k \in Keys}
              \cup {[NoReq EXCEPT !.assigned_teacher = t] : t \in {NoId} \cup Pks("teacher")},
        i \in Pks("student")}

\* the identities a bearer token can name in store s, and no token
\* requests whose JSON body is `null`: request.data is None
NullBodyLoginRequests == {[NoReq EXCEPT !.op = "login", !.null_body = TRUE]}
NullBodyRegisterRequests == {[NoReq EXCEPT !.op = "register", !.null_body = TRUE]}
NullBodyCreateRequests(kind) ==
    {[NoReq EXCEPT !.op = "create", !.kind = kind, !.null_body = TRUE]}
NullBodyUpdateRequests(kind) ==
    {[NoReq EXCEPT !.op = "update", !.kind = kind, !.pk = i, !.null_body = TRUE] :
        i \in Pks(kind)}

Callers(s) == DOMAIN s.identities \cup {ANON}

By(requests, s) == {[q EXCEPT !.caller = c] : q \in requests, c \in Callers(s)}

\* ------------------------------------------------------------------- Init
\* the store after `createsuperuser`, with or without a Profile for the superuser
Init ==
    /\ identities = (1 :> User("root", "root@x", EMPTY, EMPTY, "rootpw", TRUE))
    /\ profiles \in {<<>>} \cup {(1 :> r) : r \in Roles}
    /\ teachers = <<>>
    /\ students = <<>>
    /\ nextUid = 2
    /\ nextTid = 1
    /\ nextSid = 1
    /\ pc = [w \in Workers |-> "idle"]
    /\ req = [w \in Workers |-> NoReq]
    /\ loc = [w \in Workers |-> NoLoc]
    /\ served = 0

\* rows that requests in flight may still insert
Busy(op, kind) ==
    Cardinality({w \in Workers : pc[w] # "idle" /\ req[w].op = op /\ req[w].kind = kind})

UsersInFlight ==
    Cardinality({w \in Workers : pc[w] # "idle" /\ req[w].op \in {"register", "create"}
                                   /\ loc[w].user = NoId})

RoomFor(q) ==
    /\ q.op \in {"register", "create"} => nextUid + UsersInFlight <= MaxUsers
    /\ q.op = "create" /\ q.kind = "teacher" =>
            nextTid + Busy("create", "teacher") <= MaxTeachers
    /\ q.op = "create" /\ q.kind = "student" =>
            nextSid + Busy("create", "student") <= MaxStudents

\* ------------------------------------------------- one request at a time
Serve(q) ==
    /\ RoomFor(q)
    /\ Commit(Handle(Store, q).s)
    /\ UNCHANGED <<pc, req, loc, served>>

LoginRequest == \E q \in LoginRequests \cup NullBodyLoginRequests : Serve(q)
RegisterRequest == \E q \in RegisterRequests \cup NullBodyRegisterRequests : Serve(q)
ReadRequest ==
    \E q \in By(ListRequests \cup RetrieveRequests \cup StudentsOfTeacherRequests
                \cup ExportRequests, Store) : Serve(q)
TeacherCreateRequest ==
    \E q \in By(TeacherCreateRequests \cup NullBodyCreateRequests("teacher"), Store) : Serve(q)
TeacherUpdateRequest ==
    \E q \in By(TeacherUpdateRequests \cup NullBodyUpdateRequests("teacher"), Store) : Serve(q)
StudentCreateRequest ==
    \E q \in By(StudentCreateRequests \cup NullBodyCreateRequests("student"), Store) : Serve(q)
StudentUpdateRequest ==
    \E q \in By(StudentUpdateRequests \cup NullBodyUpdateRequests("student"), Store) : Serve(q)
DeleteRequest == \E q \in By(DeleteRequests, Store) : Serve(q)

Next ==
    \/ LoginRequest
    \/ RegisterRequest
    \/ ReadRequest
    \/ TeacherCreateRequest
    \/ TeacherUpdateRequest
    \/ StudentCreateRequest
    \/ StudentUpdateRequest
    \/ DeleteRequest

Spec == Init /\ [][Next]_vars

\* ------------------------------------------------- interleaved requests
\* stores that provisioning by the superuser reaches under Spec, from
\* which the interleaved runs start as well
Provisioned(email) == User(email, email, "f1", "l1", DefaultPassword, FALSE)

SeedStores ==
    LET root == (1 :> User("root", "root@x", EMPTY, EMPTY, "rootpw", TRUE))
        ta == Provisioned("a@x")
        tb == Provisioned("b@x")
        empty == [identities |-> root, profiles |-> <<>>, teachers |-> <<>>,
                  students |-> <<>>, nextUid |-> 2, nextTid |-> 1, nextSid |-> 1]
        one == [empty EXCEPT !.identities = root @@ (2 :> ta),
                             !.profiles = (2 :> "teacher"),
                             !.teachers = (1 :> Teacher(2, "f1", "l1", "a@x", "K1")),
                             !.nextUid = 3, !.nextTid = 2]
        two == [one EXCEPT !.identities = root @@ (2 :> ta) @@ (3 :> tb),
                           !.profiles = (2 :> "teacher") @@ (3 :> "teacher"),
                           !.teachers = @ @@ (2 :> Teacher(3, "f1", "l1", "b@x", "K2")),
                           !.nextUid = 4, !.nextTid = 3]
        mixed == [one EXCEPT !.identities = root @@ (2 :> ta) @@ (3 :> tb),
                             !.profiles = (2 :> "teacher") @@ (3 :> "student"),
                             !.students = (1 :> Student(3, "f1", "l1", "b@x", "K1", 1)),
                             !.nextUid = 4, !.nextSid = 2]
    IN {empty, one, two, mixed}

ConcInit ==
    /\ \E s \in SeedStores :
        /\ identities = s.identities
        /\ profiles = s.profiles
        /\ teachers = s.teachers
        /\ students = s.students
        /\ nextUid = s.nextUid
        /\ nextTid = s.nextTid
        /\ nextSid = s.nextSid
    /\ pc = [w \in Workers |-> "idle"]
    /\ req = [w \in Workers |-> NoReq]
    /\ loc = [w \in Workers |-> NoLoc]
    /\ served = 0

WriteRequests(s) ==
    RegisterRequests
    \cup By(TeacherCreateRequests \cup StudentCreateRequests \cup TeacherUpdateRequests
            \cup StudentUpdateRequests \cup DeleteRequests, s)

\* the requests with a `null` body, on store s
NullBodyRequests(s) ==
    NullBodyLoginRequests \cup NullBodyRegisterRequests
    \cup By(NullBodyCreateRequests("teacher") \cup NullBodyCreateRequests("student")
            \cup NullBodyUpdateRequests("teacher")
            \cup NullBodyUpdateRequests("student"), s)

\* a request arrives at an idle worker
Arrive(w) ==
    /\ pc[w] = "idle"
    /\ served < MaxServed
    /\ \E q \in WriteRequests(Store) \cup NullBodyRequests(Store) :
        /\ RoomFor(q)
        /\ pc' = [pc EXCEPT ![w] = Entry(q)]
        /\ req' = [req EXCEPT ![w] = q]
    /\ served' = served + 1
    /\ UNCHANGED <<db, loc>>

\* a worker runs the next step of its handler
Step(w) ==
    /\ pc[w] # "idle"
    /\ LET o == HandlerStep(pc[w], Store, req[w], loc[w]) IN
        /\ Commit(o.s)
        /\ pc' = [pc EXCEPT ![w] = o.pc]
        /\ loc' = [loc EXCEPT ![w] = o.l]
        /\ req' = [req EXCEPT ![w] = IF o.pc = "idle" THEN NoReq ELSE @]
    /\ UNCHANGED served

ConcNext == \E w \in Workers : Arrive(w) \/ Step(w)

ConcSpec == ConcInit /\ [][ConcNext]_vars

\* =============================================================== properties
TeacherRequests ==
    By({q \in ListRequests \cup RetrieveRequests \cup DeleteRequests : q.kind = "teacher"}
       \cup TeacherCreateRequests \cup TeacherUpdateRequests, Store)

StudentRequests ==
    By({q \in ListRequests \cup RetrieveRequests \cup DeleteRequests : q.kind = "student"}
       \cup StudentCreateRequests \cup StudentUpdateRequests, Store)

Write(q) == q.op \in {"create", "update", "delete"}
Authenticated(q) == q.caller # ANON

\* C1: on the Teacher collection a write by an authenticated identity gets past
\* the permission gate only when its resolved role is admin; a write by any other
\* role is answered 403 and leaves the store as it was; a read by an
\* authenticated identity is never answered 403, whatever its role.
C1_TeacherAdminOrReadOnly ==
    \A q \in TeacherRequests :
        Authenticated(q) =>
            LET o == Handle(Store, q)
                role == ResolveRole(Store, q.caller) IN
            /\ o.resp.status # 401
            /\ Write(q) /\ role = "admin" => o.resp.status # 403
            /\ Write(q) /\ role # "admin" => o.resp.status = 403 /\ o.s = Store
            /\ ~Write(q) => o.resp.status \in {200, 404}

\* a teacher-role identity whose Teacher creation is answered 403 while the same
\* creation by an admin is answered 201
C1_Witness ==
    \E q \in By(TeacherCreateRequests, Store), a \in DOMAIN identities :
        /\ Authenticated(q)
        /\ ResolveRole(Store, q.caller) = "teacher"
        /\ Handle(Store, q).resp.status = 403
        /\ ResolveRole(Store, a) = "admin"
        /\ Handle(Store, [q EXCEPT !.caller = a]).resp.status = 201

\* C2: on the Student collection no operation (list, retrieve, create, update,
\* delete) by an authenticated identity whose resolved role is student, teacher
\* or admin is answered 403 (or 401).
C2_StudentAnyRole ==
    \A q \in StudentRequests :
        Authenticated(q) /\ ResolveRole(Store, q.caller) \in Roles =>
            Handle(Store, q).resp.status \notin {401, 403}

\* a student-role identity deletes a Student: 204
C2_Witness ==
    \E q \in By(DeleteRequests, Store) :
        /\ Authenticated(q)
        /\ q.kind = "student"
        /\ ResolveRole(Store, q.caller) = "student"
        /\ Handle(Store, q).resp.status = 204

\* f is g with exactly one more key, id
AddsOne(f, g, id) ==
    /\ id \notin DOMAIN g
    /\ DOMAIN f = DOMAIN g \cup {id}
    /\ \A x \in DOMAIN g : f[x] = g[x]

Table(s, kind) == IF kind = "teacher" THEN s.teachers ELSE s.students

\* C3: a Teacher (Student) creation answered 201 adds exactly one Identity, whose
\* username and email are the record's email and whose password is the default,
\* exactly one Profile, for that Identity, with role teacher (student), and exactly
\* one record, linked to that Identity; login with that email and the default
\* password then succeeds with that role.
C3_ProvisioningCreatesThree ==
    \A q \in By(TeacherCreateRequests \cup StudentCreateRequests, Store) :
        LET o == Handle(Store, q)
            u == o.resp.user
            id == o.resp.id IN
        o.resp.status = 201 =>
            /\ AddsOne(o.s.identities, identities, u)
            /\ AddsOne(o.s.profiles, profiles, u)
            /\ AddsOne(Table(o.s, q.kind), Table(Store, q.kind), id)
            /\ Table(o.s, q.kind)[id].user = u
            /\ Table(o.s, q.kind)[id].email = q.email
            /\ o.s.identities[u].username = Table(o.s, q.kind)[id].email
            /\ o.s.identities[u].email = Table(o.s, q.kind)[id].email
            /\ o.s.identities[u].password = DefaultPassword
            /\ o.s.profiles[u] = q.kind
            /\ LET in == Handle(o.s, [NoReq EXCEPT !.op = "login", !.username = q.email,
                                                   !.password = DefaultPassword]).resp IN
                in.status = 200 /\ in.token /\ in.user = u /\ in.role = q.kind

\* a Student creation that is answered 201
C3_Witness ==
    \E q \in By(StudentCreateRequests, Store) :
        RoomFor(q) /\ Handle(Store, q).resp.status = 201

\* the step worker w is about to run
NextStep(w) == HandlerStep(pc[w], Store, req[w], loc[w])

\* C4: a Teacher or Student creation that is answered with a failure leaves no
\* Identity and no Profile that it added: when a step of a creation returns a
\* failure, the User this request created (if it got that far) is not in the store,
\* and neither is a Profile for it.
C4_CreationAllOrNothing ==
    \A w \in Workers :
        pc[w] # "idle" /\ req[w].op = "create" =>
            LET o == NextStep(w) IN
            o.pc = "idle" /\ o.resp.status # 201 =>
                /\ loc[w].user \notin DOMAIN o.s.identities
                /\ loc[w].user \notin DOMAIN o.s.profiles

\* C5: no two Identities share a username and no two Identities share an email.
C5_IdentityUnique ==
    \A u, v \in DOMAIN identities :
        u # v => /\ identities[u].username # identities[v].username
                 /\ identities[u].email # identities[v].email

\* C6: no two Teachers share an email or an employee_id, and no two Students
\* share an email or a roll_number, in any state of any interleaving of create,
\* update and delete requests.
C6_RecordsUnique ==
    /\ \A t, u \in DOMAIN teachers :
        t # u => /\ teachers[t].email # teachers[u].email
                 /\ teachers[t].employee_id # teachers[u].employee_id
    /\ \A t, u \in DOMAIN students :
        t # u => /\ students[t].email # students[u].email
                 /\ students[t].roll_number # students[u].roll_number

\* a Teacher creation that passed validation is about to insert an employee_id
\* that a concurrent request has inserted in the meantime
C6_Witness ==
    \E w \in Workers :
        /\ pc[w] = "teacher_create_record"
        /\ ~TeacherEmailExists(Store, req[w].email, NoId)
        /\ TeacherEmployeeIdExists(Store, req[w].employee_id, NoId)
        /\ NextStep(w).resp.status = 400
        /\ NextStep(w).s.teachers = teachers

\* a registration payload that carries username, password and email, and a role
\* that is left out or is a string
ValidRegistration(q) ==
    /\ q.op = "register"
    /\ ~Missing(q.username) /\ ~Missing(q.password) /\ ~Missing(q.email)
    /\ q.role # NULL

LoginAs(s, username, password) ==
    Handle(s, [NoReq EXCEPT !.op = "login", !.username = username,
                            !.password = password]).resp

C8_RejectedRegistrationPersistsNothing ==
    \A q \in RegisterRequests :
        LET o == Handle(Store, q) IN
        /\ o.resp.status = 400 => o.s = Store /\ ~o.resp.token
        /\ \/ Missing(q.username) \/ Missing(q.password) \/ Missing(q.email)
           \/ \E u \in DOMAIN identities : identities[u].username = q.username
           \/ \E u \in DOMAIN identities : identities[u].email = q.email
           => o.resp.status = 400

\* a registration under a fresh username that reuses the email of an Identity
C8_Witness ==
    \E q \in RegisterRequests :
        /\ ~Missing(q.username) /\ ~UsernameExists(Store, q.username)
        /\ ~Missing(q.email) /\ EmailExists(Store, q.email)
        /\ Handle(Store, q).resp.status = 400

\* C9: a self-registration that fails after its Identity has been created is
\* answered with the generic failure and leaves neither the Identity nor a
\* Profile behind: a registration answered 500 leaves the store as it was, and
\* every Identity that is not a superuser has its Profile.
C9_FailedRegistrationRollsBack ==
    /\ \A q \in RegisterRequests :
        LET o == Handle(Store, q) IN
        o.resp.status = 500 => o.s.identities = identities /\ o.s.profiles = profiles
    /\ \A u \in DOMAIN identities : ~identities[u].is_superuser => u \in DOMAIN profiles

\* what the rule gives for identity u
RuleRole(u) ==
    CASE u \in DOMAIN profiles -> profiles[u]
      [] u \notin DOMAIN profiles /\ identities[u].is_superuser -> "admin"
      [] OTHER -> "student"

\* C10: a login with the username and password of an Identity is answered 200
\* with a token pair, and its role is the Profile's role when the Identity has a
\* Profile (superuser or not), else admin for a superuser, else student.
C10_LoginRole ==
    \A q \in LoginRequests :
        \A u \in DOMAIN identities :
            identities[u].username = q.username /\ identities[u].password = q.password
            => LET r == Handle(Store, q).resp IN
               /\ r.status = 200
               /\ r.token
               /\ r.user = u
               /\ r.role = RuleRole(u)

\* a superuser whose Profile says teacher, and an Identity that is neither a
\* superuser nor has a Profile, both log in
C10_Witness ==
    /\ 1 \in DOMAIN profiles /\ profiles[1] = "teacher"
    /\ LoginAs(Store, "root", "rootpw").role = "teacher"
    /\ \E u \in DOMAIN identities :
        /\ ~identities[u].is_superuser
        /\ u \notin DOMAIN profiles
        /\ LoginAs(Store, identities[u].username, identities[u].password).status = 200
        /\ LoginAs(Store, identities[u].username, identities[u].password).role = "student"

\* C11: a login that lacks the username or the password is answered 400, a login
\* whose username and password are those of no Identity is answered 401, neither
\* answer carries a token, and no login, answered 200, 400 or 401, changes any
\* Identity, Profile, Teacher or Student.
C11_FailedLogin ==
    \A q \in LoginRequests :
        LET o == Handle(Store, q)
            known == \E u \in DOMAIN identities :
                        /\ identities[u].username = q.username
                        /\ identities[u].password = q.password IN
        /\ Missing(q.username) \/ Missing(q.password) => o.resp.status = 400
        /\ ~Missing(q.username) /\ ~Missing(q.password) /\ ~known => o.resp.status = 401
        /\ o.resp.status \in {200, 400, 401}
        /\ o.resp.status # 200 => ~o.resp.token /\ o.resp.user = NoId
        /\ o.s = Store

\* the login of a registered username with a password that is not its own, and
\* the login of a username nobody holds
C11_Witness ==
    /\ UsernameExists(Store, "u") /\ ~UsernameExists(Store, "a@x")
    /\ LoginAs(Store, "u", DefaultPassword).status = 401
    /\ LoginAs(Store, "a@x", "pw").status = 401
    /\ LoginAs(Store, "u", "pw").status = 200

\* the keys of the body of an error response: Response({'error': message})
BodyKeys(r) == IF r.error = ABSENT THEN {} ELSE {"error"}

\* the words of the messages of the two create handlers
Words(error) ==
    CASE error = "Failed to create teacher" -> {"Failed", "to", "create", "teacher"}
      [] error = "Failed to create student" -> {"Failed", "to", "create", "student"}
      [] OTHER -> {}

\* response r names the field: as a key of its body or in its message
Names(r, field) == field \in BodyKeys(r) \/ field \in Words(r.error)

\* the unique fields of the payload of creation q that a stored record of its
\* kind already holds
Conflicts(s, q) ==
    IF q.kind = "teacher"
    THEN {f \in {"email"} : TeacherEmailExists(s, q.email, NoId)}
         \cup {f \in {"employee_id"} : TeacherEmployeeIdExists(s, q.employee_id, NoId)}
    ELSE {f \in {"email"} : StudentEmailExists(s, q.email, NoId)}
         \cup {f \in {"roll_number"} : StudentRollNumberExists(s, q.roll_number, NoId)}

Permitted(s, q) ==
    /\ q.caller # ANON
    /\ HasPermission(PermissionClass(q.kind), ResolveRole(s, q.caller), q.op)

\* C12: a Teacher or Student creation by a permitted caller whose email,
\* employee_id or roll_number a stored record of the kind already holds is
\* answered 400, its response names a conflicting field, and it leaves the store
\* as it was.
C12_DuplicateNamesField ==
    \A q \in By(TeacherCreateRequests \cup StudentCreateRequests, Store) :
        Permitted(Store, q) /\ Conflicts(Store, q) # {} =>
            LET o == Handle(Store, q) IN
            /\ o.resp.status = 400
            /\ o.s = Store
            /\ \E f \in Conflicts(Store, q) : Names(o.resp, f)

\* record and the User it is linked to carry the same email and names
InSync(s, record) ==
    /\ record.user \in DOMAIN s.identities
    /\ s.identities[record.user].email = record.email
    /\ s.identities[record.user].username = record.email
    /\ s.identities[record.user].first_name = record.first_name
    /\ s.identities[record.user].last_name = record.last_name

\* C13: every Teacher and every Student agrees with its linked Identity:
\* Identity.email = Identity.username = record.email, and the first and last
\* names are equal, in every state that creations and updates reach, interleaved
\* ones included, once the requests in flight have been answered.
Quiescent == \A w \in Workers : pc[w] = "idle"

C13_RecordAndIdentityInSync ==
    Quiescent =>
        /\ \A t \in DOMAIN teachers : InSync(Store, teachers[t])
        /\ \A t \in DOMAIN students : InSync(Store, students[t])

\* every request of the API on store s
AllRequests(s) ==
    LoginRequests \cup RegisterRequests
    \cup By(ListRequests \cup RetrieveRequests \cup DeleteRequests
            \cup StudentsOfTeacherRequests \cup ExportRequests
            \cup TeacherCreateRequests \cup TeacherUpdateRequests
            \cup StudentCreateRequests \cup StudentUpdateRequests, s)

OtherKind(kind) == IF kind = "teacher" THEN "student" ELSE "teacher"

\* C14: the deletion of a stored Teacher or Student by a permitted caller is
\* answered 204 and removes that record and no other; the Identity it was linked
\* to and every other Identity and Profile remain as they were; and no request
\* of the API removes an Identity.
C14_DeleteKeepsIdentity ==
    /\ \A q \in By(DeleteRequests, Store) :
            Permitted(Store, q) /\ q.pk \in DOMAIN Table(Store, q.kind) =>
                LET o == Handle(Store, q) IN
                /\ o.resp.status = 204
                /\ DOMAIN Table(o.s, q.kind) = DOMAIN Table(Store, q.kind) \ {q.pk}
                /\ \A x \in DOMAIN Table(o.s, q.kind) :
                        Table(o.s, q.kind)[x] = Table(Store, q.kind)[x]
                /\ DOMAIN Table(o.s, OtherKind(q.kind))
                        = DOMAIN Table(Store, OtherKind(q.kind))
                /\ Table(Store, q.kind)[q.pk].user \in DOMAIN o.s.identities
                /\ o.s.identities = identities
                /\ o.s.profiles = profiles
    /\ \A q \in AllRequests(Store) :
            DOMAIN identities \subseteq DOMAIN Handle(Store, q).s.identities

\* a Teacher that a Student is assigned to, and a Student, are deleted
C14_Witness ==
    /\ \E q \in By(DeleteRequests, Store) :
        /\ q.kind = "teacher"
        /\ \E x \in DOMAIN students : students[x].assigned_teacher = q.pk
        /\ Handle(Store, q).resp.status = 204
    /\ \E q \in By(DeleteRequests, Store) :
        /\ q.kind = "student"
        /\ Handle(Store, q).resp.status = 204

\* C15: the assigned_teacher of every Student is null or the id of a stored
\* Teacher, in every state of every interleaving; and the deletion of a Teacher
\* that Students are assigned to leaves each of these Students stored, equal in
\* every other field, retrievable, and with assigned_teacher null.
C15_AssignedTeacherExists ==
    /\ \A x \in DOMAIN students :
            students[x].assigned_teacher \in {NoId} \cup DOMAIN teachers
    /\ \A q \in By(DeleteRequests, Store) :
            q.kind = "teacher" /\ Handle(Store, q).resp.status = 204 =>
                LET o == Handle(Store, q) IN
                \A x \in DOMAIN students :
                    students[x].assigned_teacher = q.pk =>
                        /\ x \in DOMAIN o.s.students
                        /\ o.s.students[x] = [students[x] EXCEPT !.assigned_teacher = NoId]
                        /\ Handle(o.s, [NoReq EXCEPT !.op = "retrieve", !.kind = "student",
                                                     !.pk = x, !.caller = q.caller]).resp.status
                                = 200

\* a Student whose Teacher was deleted while a request that loaded the Student
\* with that Teacher is about to save it
C15_Witness ==
    \E w \in Workers :
        /\ pc[w] = "student_update_save"
        /\ loc[w].instance.assigned_teacher # NoId
        /\ loc[w].instance.assigned_teacher \notin DOMAIN teachers
        /\ loc[w].id \in DOMAIN students
        /\ students[loc[w].id].assigned_teacher = NoId

\* the Teachers and the Students linked to identity u
TeachersOf(s, u) == {t \in DOMAIN s.teachers : s.teachers[t].user = u}
StudentsOf(s, u) == {x \in DOMAIN s.students : s.students[x].user = u}

\* C16: every Identity that registration or provisioning created (every Identity
\* but the superuser of the installation) has a Profile, a Profile belongs to one
\* Identity, an Identity is linked to at most one record, Teacher or Student, and
\* every record is linked to a stored Identity that no other record is linked to.
C16_OneProfileOneRecord ==
    /\ \A u \in DOMAIN identities :
        /\ ~identities[u].is_superuser => u \in DOMAIN profiles
        /\ Cardinality(TeachersOf(Store, u)) + Cardinality(StudentsOf(Store, u)) <= 1
    /\ DOMAIN profiles \subseteq DOMAIN identities
    /\ \A t \in DOMAIN teachers : teachers[t].user \in DOMAIN identities
    /\ \A x \in DOMAIN students : students[x].user \in DOMAIN identities

\* the Identities that provisioning created: the ones with the default credential
ProvisionedIds(s) ==
    {u \in DOMAIN s.identities : s.identities[u].password = DefaultPassword}

\* the Teacher and Student rows inserted so far, deleted ones included
Inserted(s) == (s.nextTid - 1) + (s.nextSid - 1)

\* C17: once the requests of an interleaving have all been answered, every
\* Identity that provisioning created has its Profile and had its Teacher or
\* Student record inserted: the provisioned Identities are as many as the
\* records inserted.
C17_NoOrphanAfterConcurrentCreation ==
    Quiescent =>
        /\ \A u \in ProvisionedIds(Store) : u \in DOMAIN profiles
        /\ Cardinality(ProvisionedIds(Store)) = Inserted(Store)

\* C18: GET /teachers/<pk>/students/ is governed by the teacher-or-admin policy:
\* it is answered to an authenticated caller whose resolved role is teacher or
\* admin, and an authenticated caller whose resolved role is student is denied
\* (403).
C18_StudentsActionTeacherOrAdmin ==
    \A q \in By(StudentsOfTeacherRequests, Store) :
        Authenticated(q) =>
            LET o == Handle(Store, q)
                role == ResolveRole(Store, q.caller) IN
            /\ role \in {"teacher", "admin"} => o.resp.status # 403
            /\ role \notin {"teacher", "admin"} => o.resp.status = 403

\* the requests to the Teacher, Student and export endpoints on store s
GatedRequests(s) == AllRequests(s) \ (LoginRequests \cup RegisterRequests)

\* C19: a request to a Teacher, Student or export endpoint that carries no valid
\* token is answered 401; 403 is answered only to an authenticated caller that
\* the policy of the endpoint denies; and a request answered 401 or 403 leaves
\* Identities, Profiles, Teachers and Students, with all their fields, unchanged.
C19_UnauthenticatedIs401 ==
    \A q \in GatedRequests(Store) :
        LET o == Handle(Store, q) IN
        /\ q.caller = ANON => o.resp.status = 401
        /\ o.resp.status = 401 => q.caller = ANON
        /\ o.resp.status = 403 => q.caller # ANON /\ ~Permitted(Store, q)
        /\ o.resp.status \in {401, 403} => o.s = Store

\* with records stored, a write without a token and a Teacher write by a
\* student-role caller
C19_Witness ==
    /\ teachers # <<>> /\ students # <<>>
    /\ \E q \in GatedRequests(Store) :
        q.caller = ANON /\ q.op = "delete" /\ Handle(Store, q).resp.status = 401
    /\ \E q \in GatedRequests(Store) :
        q.op = "export" /\ q.kind = "school" /\ Handle(Store, q).resp.status = 401
    /\ \E q \in GatedRequests(Store) :
        /\ q.caller # ANON /\ q.op = "update" /\ q.pk \in DOMAIN teachers
        /\ Handle(Store, q).resp.status = 403

\* C20: the role of every Profile is admin, teacher or student, whatever role a
\* self-registration supplies.
C20_ProfileRoleInChoices ==
    \A u \in DOMAIN profiles : profiles[u] \in Roles

\* C21: a retrieve, an update or a delete of a Teacher or Student id that is not
\* stored, by a caller the policy of the viewset allows, is answered 404 and leaves
\* the store as it was.
C21_UnknownIdIs404 ==
    \A q \in By(RetrieveRequests \cup DeleteRequests \cup TeacherUpdateRequests
                \cup StudentUpdateRequests, Store) :
        Permitted(Store, q) /\ q.pk \notin DOMAIN Table(Store, q.kind) =>
            LET o == Handle(Store, q) IN
            /\ o.resp.status = 404
            /\ o.s = Store

\* how many rows of a response are the row of id
Times(rows, id) == Cardinality({i \in 1..Len(rows) : rows[i].id = id})

\* C22: GET /teachers/<pk>/students/ for a stored Teacher, by a caller the policy
\* allows, is answered 200 with exactly the Students whose assigned_teacher is
\* that Teacher: each of them once, and no Student that is unassigned or
\* assigned to another Teacher.
C22_StudentsOfTeacher ==
    \A q \in By(StudentsOfTeacherRequests, Store) :
        Permitted(Store, q) /\ q.pk \in DOMAIN teachers =>
            LET o == Handle(Store, q) IN
            /\ o.resp.status = 200
            /\ o.s = Store
            /\ \A x \in DOMAIN students :
                    Times(o.resp.rows, x)
                        = IF students[x].assigned_teacher = q.pk THEN 1 ELSE 0
            /\ \A i \in 1..Len(o.resp.rows) : o.resp.rows[i].id \in DOMAIN students

\* the Students of a Teacher that one Student is assigned to are listed
C22_Witness ==
    \E q \in By(StudentsOfTeacherRequests, Store) :
        /\ q.pk \in DOMAIN teachers
        /\ Handle(Store, q).resp.status = 200
        /\ Len(Handle(Store, q).resp.rows) = 1

\* C23 as stated: no request of a caller whose resolved role is teacher or
\* student adds or removes a Student or changes a field of a Student.
C23_StudentWritesAdminOnly ==
    \A q \in GatedRequests(Store) :
        Authenticated(q) /\ ResolveRole(Store, q.caller) \in {"teacher", "student"} =>
            Handle(Store, q).s.students = students

\* C23: Students are created, updated and deleted by the requests of callers
\* whose resolved role is admin, teacher or student, and by no other request: a
\* request that changes the Students is a Student request of an authenticated
\* caller with one of the three roles, or the deletion of a Teacher by an admin;
\* and the deletion of a stored Student by a caller with any of the three roles
\* is answered 204 and removes it.
C23_StudentWritesByRole ==
    /\ \A q \in AllRequests(Store) :
            Handle(Store, q).s.students # students =>
                /\ q.op \notin {"login", "register"}
                /\ Authenticated(q)
                /\ ResolveRole(Store, q.caller) \in Roles
                /\ \/ q.kind = "student" /\ q.op \in {"create", "update", "delete"}
                   \/ /\ q.kind = "teacher" /\ q.op = "delete"
                      /\ ResolveRole(Store, q.caller) = "admin"
    /\ \A q \in By(DeleteRequests, Store) :
            /\ q.kind = "student" /\ q.pk \in DOMAIN students
            /\ Authenticated(q) /\ ResolveRole(Store, q.caller) \in Roles
            => /\ Handle(Store, q).resp.status = 204
               /\ q.pk \notin DOMAIN Handle(Store, q).s.students

\* a caller whose resolved role is student creates a Student, and a caller
\* whose resolved role is none of the three is refused
C23_Witness ==
    /\ \E q \in By(StudentCreateRequests, Store) :
        /\ Authenticated(q) /\ ResolveRole(Store, q.caller) = "student"
        /\ Handle(Store, q).resp.status = 201
    /\ \E q \in By(StudentCreateRequests, Store) :
        /\ Authenticated(q) /\ ResolveRole(Store, q.caller) \notin Roles
        /\ Handle(Store, q).resp.status = 403

\* the ORM call or validation at `label` raises an exception inside the handler's
\* try block, on store s with request q and locals l
Raises(label, s, q, l) ==
    CASE label \in {"login", "register"} -> q.null_body
      [] label = "register_create_user" -> CreateUserFails(s, q.username)
      [] label = "register_create_profile" ->
            CreateProfileFails(s, l.user, RequestedRole(q))
      [] label = "teacher_create" -> q.null_body \/ ~TeacherCreateValid(s, q)
      [] label = "student_create" -> q.null_body \/ ~StudentCreateValid(s, q)
      [] label \in {"teacher_create_user", "student_create_user"} ->
            CreateUserFails(s, q.email)
      [] label = "teacher_create_profile" -> CreateProfileFails(s, l.user, "teacher")
      [] label = "student_create_profile" -> CreateProfileFails(s, l.user, "student")
      [] label = "teacher_create_record" ->
            TeacherWriteFails(s, NoId, Teacher(l.user, q.first_name, q.last_name,
                                               q.email, q.employee_id))
      [] label = "student_create_record" ->
            StudentWriteFails(s, NoId,
                              Student(l.user, q.first_name, q.last_name, q.email,
                                      q.roll_number,
                                      AssignedTeacherValue(q.assigned_teacher)))
      [] label = "teacher_update" -> q.pk \notin DOMAIN s.teachers
      [] label = "student_update" -> q.pk \notin DOMAIN s.students
      [] label = "teacher_update_validate" ->
            q.null_body \/ ~TeacherUpdateValid(s, l.id, q)
      [] label = "student_update_validate" ->
            q.null_body \/ ~StudentUpdateValid(s, l.id, q)
      [] label \in {"teacher_update_user", "student_update_user"} ->
            UpdateUserFails(s, l.instance.user, q)
      [] label = "teacher_update_save" ->
            TeacherWriteFails(s, l.id, TeacherUpdated(q, l.instance))
      [] label = "student_update_save" ->
            StudentWriteFails(s, l.id, StudentUpdated(q, l.instance))
      [] OTHER -> FALSE

\* the status and the message of the `except Exception` clause of q's handler
CaughtStatus(q) == IF q.op \in {"login", "register"} THEN 500 ELSE 400
CaughtError(q) ==
    CASE q.op = "login" -> "An error occurred during login"
      [] q.op = "register" -> "An error occurred during registration"
      [] q.op = "create" /\ q.kind = "teacher" -> "Failed to create teacher"
      [] q.op = "create" /\ q.kind = "student" -> "Failed to create student"
      [] q.op = "update" /\ q.kind = "teacher" -> "Failed to update teacher"
      [] q.op = "update" /\ q.kind = "student" -> "Failed to update student"
      [] OTHER -> ABSENT

\* response r is what the `except Exception` clause of q's handler returns
Caught(q, r) ==
    r = Response(CaughtStatus(q), CaughtError(q)) /\ BodyKeys(r) = {"error"}

\* C24: no exception escapes login, register or a Teacher/Student create or
\* update: whenever a step of one of these handlers raises, whatever other
\* requests are in flight, the handler returns at that step the generic response
\* of its `except` clause (500 for login and register, 400 for create and
\* update), whose body is the `error` message alone; and no response of login or
\* register is a 500 other than that one, and none of create or update is a 500.
C24_NoExceptionEscapes ==
    \A w \in Workers :
        pc[w] \notin {"idle", "permission"} =>
            LET o == NextStep(w) IN
            /\ Raises(pc[w], Store, req[w], loc[w]) =>
                    o.pc = "idle" /\ Caught(req[w], o.resp)
            /\ o.pc = "idle" /\ o.resp.status >= 500 =>
                    Caught(req[w], o.resp) /\ CaughtStatus(req[w]) = 500

\* a login with a `null` body is about to raise while a step of a Teacher or
\* Student create or update whose body is not `null` is about to raise too
C24_Witness ==
    /\ \E w \in Workers :
        /\ pc[w] = "login"
        /\ Raises(pc[w], Store, req[w], loc[w])
        /\ NextStep(w).resp.status = 500
    /\ \E w \in Workers :
        /\ req[w].op \in {"create", "update"} /\ ~req[w].null_body
        /\ pc[w] \notin {"idle", "permission"}
        /\ Raises(pc[w], Store, req[w], loc[w])
        /\ NextStep(w).resp.status = 400

\* the export requests of one kind, by every caller
ExportsOf(kind) == By({q \in ExportRequests : q.kind = kind}, Store)

\* C25: an export by a caller the policy allows is answered 200 and changes no
\* state. The students export has one row per stored Student and no other row,
\* and the assigned-teacher column of a Student's row is "None" when the Student
\* is unassigned and else the first name, a space and the last name of the
\* assigned Teacher. The teachers export has one row per stored Teacher and no
\* other row, and the students-count column of a Teacher's row is the number of
\* Students whose assigned_teacher is that Teacher.
C25_ExportRows ==
    /\ \A q \in ExportsOf("student") :
        Permitted(Store, q) =>
            LET o == Handle(Store, q) IN
            /\ o.resp.status = 200
            /\ o.s = Store
            /\ Len(o.resp.rows) = Cardinality(DOMAIN students)
            /\ \A x \in DOMAIN students : Times(o.resp.rows, x) = 1
            /\ \A i \in 1..Len(o.resp.rows) :
                LET a == students[o.resp.rows[i].id].assigned_teacher IN
                o.resp.rows[i].assigned_teacher
                    = IF a = NoId THEN "None"
                      ELSE teachers[a].first_name \o " " \o teachers[a].last_name
    /\ \A q \in ExportsOf("teacher") :
        Permitted(Store, q) =>
            LET o == Handle(Store, q) IN
            /\ o.resp.status = 200
            /\ o.s = Store
            /\ Len(o.resp.rows) = Cardinality(DOMAIN teachers)
            /\ \A x \in DOMAIN teachers : Times(o.resp.rows, x) = 1
            /\ \A i \in 1..Len(o.resp.rows) :
                o.resp.rows[i].students_count
                    = Cardinality({x \in DOMAIN students :
                                     students[x].assigned_teacher = o.resp.rows[i].id})

\* both exports are served while a Student assigned to a Teacher whose name was
\* changed is stored
C25_Witness ==
    /\ \E x \in DOMAIN students :
        /\ students[x].assigned_teacher # NoId
        /\ teachers[students[x].assigned_teacher].last_name # "l1"
    /\ \E q \in ExportsOf("student") :
        \E i \in 1..Len(Handle(Store, q).resp.rows) :
            Handle(Store, q).resp.rows[i].assigned_teacher \notin {"None", ABSENT}
    /\ \E q \in ExportsOf("teacher") :
        \E i \in 1..Len(Handle(Store, q).resp.rows) :
            Handle(Store, q).resp.rows[i].students_count = 1

\* C26: when no request is in flight, a Teacher or Student creation by a
\* permitted caller whose payload email is the username of a stored Identity is
\* answered 400 and leaves the store as it was; and after the deletion of a stored
\* record with email e, a creation of a Teacher or Student with email e by a
\* permitted caller is answered 400.
C26_CreationAfterDeletionFails ==
    Quiescent =>
        /\ \A q \in By(TeacherCreateRequests \cup StudentCreateRequests, Store) :
            Permitted(Store, q) /\ UsernameExists(Store, q.email) =>
                LET o == Handle(Store, q) IN
                o.resp.status = 400 /\ o.s = Store
        /\ \A q \in By(DeleteRequests, Store) :
            Permitted(Store, q) /\ q.pk \in DOMAIN Table(Store, q.kind) =>
                LET o == Handle(Store, q) IN
                \A c \in By(TeacherCreateRequests \cup StudentCreateRequests, o.s) :
                    Permitted(o.s, c) /\ c.email = Table(Store, q.kind)[q.pk].email =>
                        Handle(o.s, c).resp.status = 400

\* C27: an update of a Teacher or Student that is answered 400 has changed
\* neither the record nor its linked Identity: the step that returns the 400
\* writes nothing, and what the request wrote to the Identity before that step,
\* if it wrote, left the Identity as the request had found it.
C27_RejectedUpdateChangesNothing ==
    \A w \in Workers :
        req[w].op = "update" /\ pc[w] \notin {"idle", "permission"} =>
            LET o == NextStep(w) IN
            o.pc = "idle" /\ o.resp.status = 400 =>
                /\ o.s = Store
                /\ loc[w].instance_user # <<>> =>
                        UserData(req[w], loc[w].instance_user) = loc[w].instance_user

\* C28: no step of a Teacher or Student update, whatever else is in flight,
\* changes a Profile, adds or removes an Identity, changes an Identity other than
\* the one linked to the record it loaded, changes that Identity's password or
\* superuser flag, or changes a record other than the one it addresses; of the
\* linked Identity it changes first_name only when the payload carries
\* first_name, last_name only when it carries last_name, and email and username
\* only when it carries email; a payload with none of the three changes no
\* Identity.
C28_UpdateFrame ==
    \A w \in Workers :
        req[w].op = "update" /\ pc[w] # "idle" =>
            LET o == NextStep(w)
                q == req[w]
            IN
            /\ o.s.profiles = profiles
            /\ DOMAIN o.s.identities = DOMAIN identities
            /\ \A u \in DOMAIN identities :
                LET old == identities[u]
                    new == o.s.identities[u]
                IN
                /\ new # old => loc[w].instance # <<>> /\ u = loc[w].instance.user
                /\ new.password = old.password
                /\ new.is_superuser = old.is_superuser
                /\ new.first_name # old.first_name => q.first_name # ABSENT
                /\ new.last_name # old.last_name => q.last_name # ABSENT
                /\ new.email # old.email => q.email # ABSENT
                /\ new.username # old.username => q.email # ABSENT
            /\ q.first_name = ABSENT /\ q.last_name = ABSENT /\ q.email = ABSENT =>
                    o.s.identities = identities
            /\ Table(o.s, OtherKind(q.kind)) = Table(Store, OtherKind(q.kind))
            /\ DOMAIN Table(o.s, q.kind) \subseteq DOMAIN Table(Store, q.kind) \cup {q.pk}
            /\ \A x \in DOMAIN Table(Store, q.kind) \ {q.pk} :
                    /\ x \in DOMAIN Table(o.s, q.kind)
                    /\ Table(o.s, q.kind)[x] = Table(Store, q.kind)[x]

\* an update that carries an email and no name is about to change the username
\* and the email, and not the first name, of the linked Identity
C28_Witness ==
    \E w \in Workers :
        /\ req[w].op = "update" /\ pc[w] \in {"teacher_update_user", "student_update_user"}
        /\ req[w].first_name = ABSENT /\ req[w].email # ABSENT
        /\ LET u == loc[w].instance.user IN
            /\ NextStep(w).s.identities[u].username # identities[u].username
            /\ NextStep(w).s.identities[u].email # identities[u].email
            /\ NextStep(w).s.identities[u].first_name = identities[u].first_name

\* the records of store s, of both kinds
Records(s) ==
    {[kind |-> "teacher", id |-> t, row |-> s.teachers[t]] : t \in DOMAIN s.teachers}
    \cup {[kind |-> "student", id |-> t, row |-> s.students[t]] : t \in DOMAIN s.students}

\* no two records of store s, of one kind or of both, hold the same email, and the
\* email of a record is the username of no Identity but the record's own
EmailsDistinct(s) ==
    /\ \A a, b \in Records(s) : a # b => a.row.email # b.row.email
    /\ \A a \in Records(s) :
        \A u \in DOMAIN s.identities :
            s.identities[u].username = a.row.email => u = a.row.user

\* C29: in every state the API reaches, no two records (Teachers and Students
\* together) hold the same email and no record's email is the username of an
\* Identity other than its own; this is so whenever every request has been
\* answered, however the requests were interleaved, and in the state that one
\* further creation or registration then leads to.
C29_EmailsDistinct ==
    Quiescent =>
        /\ EmailsDistinct(Store)
        /\ \A q \in RegisterRequests
                     \cup By(TeacherCreateRequests \cup StudentCreateRequests, Store) :
                EmailsDistinct(Handle(Store, q).s)

\* the write requests on the Teacher collection, sent by identity u
TeacherWritesBy(u) ==
    {[q EXCEPT !.caller = u] :
        q \in TeacherCreateRequests \cup TeacherUpdateRequests
              \cup {d \in DeleteRequests : d.kind = "teacher"}}

\* C30: a self-registration is sent without authentication; when one that asks
\* for role admin is answered 201, the Identity it created has resolved role
\* admin, and none of that Identity's create, update and delete requests on the
\* Teacher collection is refused by the permission gate (401 or 403); its
\* well-formed creation of a Teacher whose email and employee_id are unused is
\* answered 201.
C30_SelfRegisteredAdmin ==
    \A q \in RegisterRequests :
        q.role = "admin" =>
            LET o == Handle(Store, q)
                u == o.resp.user
            IN
            /\ q.caller = ANON
            /\ o.resp.status = 201 =>
                /\ u \notin DOMAIN identities
                /\ ResolveRole(o.s, u) = "admin"
                /\ \A w \in TeacherWritesBy(u) :
                    LET r == Handle(o.s, w) IN
                    /\ r.resp.status \notin {401, 403}
                    /\ w.op = "create" /\ ValidEmail(w.email)
                          /\ ~UsernameExists(o.s, w.email)
                          /\ ~TeacherEmailExists(o.s, w.email, NoId)
                          /\ ~TeacherEmployeeIdExists(o.s, w.employee_id, NoId)
                       => r.resp.status = 201

\* an unauthenticated registration with role admin succeeds, and the Identity
\* it created then creates a Teacher and deletes a stored Teacher
C30_Witness ==
    \E q \in RegisterRequests :
        /\ q.role = "admin" /\ q.caller = ANON
        /\ Handle(Store, q).resp.status = 201
        /\ LET o == Handle(Store, q) IN
            /\ \E w \in TeacherWritesBy(o.resp.user) :
                w.op = "create" /\ Handle(o.s, w).resp.status = 201
            /\ \E w \in TeacherWritesBy(o.resp.user) :
                w.op = "delete" /\ Handle(o.s, w).resp.status = 204

====
